---- MODULE Spec2Model ----
(***************************************************************************)
(* Model of cmd.go: the OAuth2 token acquisition (getToken and its         *)
(* helpers), the top-level Run, the playlist enumeration (getListsID,      *)
(* getListItems, getItemInfo) and the relational sink (InsertProductDB).   *)
(* The file holds two revisions of the program: the one that writes each   *)
(* record to the database (lines 1-408) and the one that prints each       *)
(* record (lines 410-722); `variant` selects the revision of a run.        *)
(***************************************************************************)
EXTENDS Integers, Sequences, FiniteSets, TLC

\* ------------------------------------------------------------------ bounds
MaxPlaylists ==
  2
MaxPages ==
  2
MaxItems ==
  2
MaxSinkErrors ==
  1

\* --------------------------------------------------------------- constants
\* getPlaylistsInfo: call.MaxResults(25)
PlaylistsMaxResults ==
  25
\* getListItems: MaxResults(50)
ItemsMaxResults ==
  50
VARIABLES
  variant,        \* "sql" (lines 1-408) or "print" (lines 410-722)
  pc,             \* position of the single thread of control
  cacheFile,      \* the token cache file: [state, body]
  token,          \* the token held by getToken / Run
  tokenSource,    \* "none", "cache" or "web"
  cacheReads,     \* calls of getTokenFromFile
  prompts,        \* authorization URLs shown
  codeReads,      \* fmt.Scan calls that returned
  exchanges,      \* config.Exchange calls
  cacheWrites,    \* os.OpenFile calls of saveToken
  written,        \* the token saveToken last encoded into the file
  channelReqs,    \* Channels.List calls
  channelItems,   \* len(response.Items) of the channel lookup, -1 before it
  playlistReqs,   \* Playlists.List calls
  plResponse,     \* Items of the PlaylistListResponse
  plMore,         \* that response carried a NextPageToken
  playlists,      \* the []playlistMeta built by getListsID
  idx,            \* index of `meta` in the range loop of getListItems
  nextPageToken,  \* the cursor variable of getListItems
  calls,          \* PlaylistItems.List calls, with their responses
  page,           \* Items of the response getItemInfo is ranging over
  itemIdx,        \* index of playlistItem in the range loop of getItemInfo
  emitted,        \* records handed to the sink, in order
  txCalls,        \* InsertProductDB calls
  lastTx,         \* the transaction of the latest InsertProductDB call
  openTx,         \* transactions begun and neither committed nor rolled back
  committed,      \* number of rows the run has added to playlists_info
  sinkErrs,       \* sink calls that returned an error so far
  printedErrs,    \* errors printed by getItemInfo
  runErr,         \* what Run returned: "running", "nil" or the failing stage
  exitStatus      \* -1 while the process runs, then its exit status

vars ==
  << variant, pc, cacheFile, token, tokenSource, cacheReads, prompts,
     codeReads, exchanges, cacheWrites, written, channelReqs, channelItems,
     playlistReqs, plResponse, plMore, playlists, idx, nextPageToken, calls, page, itemIdx,
     emitted, txCalls, lastTx, openTx, committed, sinkErrs, printedErrs, runErr, exitStatus >>

tokenVars ==
  << cacheFile, token, tokenSource, cacheReads, prompts, codeReads,
     exchanges, cacheWrites, written >>

apiVars ==
  << channelReqs, channelItems, playlistReqs, plResponse, plMore, playlists,
     idx, nextPageToken, calls, page, itemIdx, emitted >>

dbVars ==
  << txCalls, lastTx, openTx, committed, sinkErrs, printedErrs >>

\* ------------------------------------------------------------------ tokens
\* oauth2.Token: access token, refresh token, expiry (0 is the zero time)
NoToken ==
  [access_token |-> "", refresh_token |-> "", expiry |-> 0]

\* tokens a cache file of an earlier run may hold: one whose expiry has
\* passed, one still valid
CachedTokens ==
  { [access_token |-> "at1", refresh_token |-> "rt1", expiry |-> 1],
    [access_token |-> "at2", refresh_token |-> "",    expiry |-> 3] }

\* tokens config.Exchange may return
WebTokens ==
  { [access_token |-> "at3", refresh_token |-> "rt3", expiry |-> 3] }

\* time.Time as written by encoding/json (RFC 3339 text); expiry n is the
\* instant TimeText[n]: the first lies before the run, the others after it
TimeText ==
  << "2020-01-01T00:00:00Z", "2040-01-01T00:00:00Z", "2050-01-01T00:00:00Z" >>

\* the expiry of the token has passed when the run starts (what
\* oauth2.Token.Valid would look at; cmd.go never does)
Expired(t) ==
  t.expiry = 1

FormatTime(n) ==
  IF n = 0 THEN "0001-01-01T00:00:00Z" ELSE TimeText[n]

ParseTime(s) ==
  IF s = "0001-01-01T00:00:00Z" THEN 0
  ELSE CHOOSE n \in 1..Len(TimeText) : TimeText[n] = s

\* fault: an encoder that leaves the refresh token out
EncodeMutant(t) ==
  << << "access_token", t.access_token >>,
     << "expiry", FormatTime(t.expiry) >> >>

\* json.NewEncoder(f).Encode(token): the members of the JSON object, in
\* order; refresh_token carries omitempty
Encode(t) ==
  << << "access_token", t.access_token >> >>
  \o (IF t.refresh_token = "" THEN << >>
      ELSE << << "refresh_token", t.refresh_token >> >>)
  \o << << "expiry", FormatTime(t.expiry) >> >>

HasMember(body, key) ==
  \E i \in 1..Len(body) : body[i][1] = key

Member(body, key) ==
  body[CHOOSE i \in 1..Len(body) : body[i][1] = key][2]

\* json.NewDecoder(f).Decode(t) into a zero oauth2.Token
Decode(body) ==
  [access_token  |-> IF HasMember(body, "access_token")
                     THEN Member(body, "access_token") ELSE "",
   refresh_token |-> IF HasMember(body, "refresh_token")
                     THEN Member(body, "refresh_token") ELSE "",
   expiry        |-> IF HasMember(body, "expiry")
                     THEN ParseTime(Member(body, "expiry")) ELSE 0]

\* the states of the cache file on disk
FileAbsent ==
  [state |-> "absent", body |-> << >>]
FileUnreadable ==
  [state |-> "unreadable", body |-> << >>]
FileCorrupt ==
  [state |-> "corrupt", body |-> << >>]
FileOf(t) ==
  [state |-> "json", body |-> Encode(t)]

\* os.Open(file) succeeds
CanOpen(f) ==
  f.state \in {"corrupt", "json"}

\* -------------------------------------------------------------------- Run
\* Run returns err (wrapped with the prefix of the failing stage)
ReturnErr(stage) ==
  /\ pc' = "returned"
  /\ runErr' = stage

\* Run, lines 293-296: viper.ReadInConfig
ReadInConfig ==
  /\ pc = "readConfig"
  /\ \E ok \in BOOLEAN :
       IF ok THEN pc' = "initCredential" /\ runErr' = runErr
       ELSE ReturnErr("env")
  /\ UNCHANGED << variant, tokenVars, apiVars, dbVars, exitStatus >>

\* Run, lines 300-308: initCredential and google.ConfigFromJSON
initCredential ==
  /\ pc = "initCredential"
  /\ \E out \in {"ok", "secret", "config"} :
       IF out = "ok" THEN pc' = "getToken" /\ runErr' = runErr
       ELSE ReturnErr(out)
  /\ UNCHANGED << variant, tokenVars, apiVars, dbVars, exitStatus >>

\* fault: a getToken that takes the cached token only while it is valid
CacheHitMutant(f) ==
  /\ CanOpen(f)
  /\ f.state = "json"
  /\ ~Expired(Decode(f.body))

\* getToken line 34: getTokenFromFile returned no error, i.e. the file was
\* opened and decoded; the expiry of the decoded token is not looked at
CacheHit(f) ==
  /\ CanOpen(f)
  /\ f.state = "json"

\* getToken, lines 27-45 up to the cache read: getPathTokenCacheFile and
\* getTokenFromFile; a decoded token is returned at once
getToken ==
  /\ pc = "getToken"
  /\ \E pathOk \in BOOLEAN :
       IF ~pathOk
       THEN /\ ReturnErr("token")
            /\ UNCHANGED tokenVars
       ELSE /\ cacheReads' = cacheReads + 1
            /\ IF CacheHit(cacheFile)
               THEN /\ token' = Decode(cacheFile.body)
                    /\ tokenSource' = "cache"
                    /\ pc' = "newService"
               ELSE /\ pc' = "getTokenFromWeb"
                    /\ UNCHANGED << token, tokenSource >>
            /\ runErr' = runErr
            /\ UNCHANGED << cacheFile, prompts, codeReads, exchanges,
                            cacheWrites, written >>
  /\ UNCHANGED << variant, apiVars, dbVars, exitStatus >>

\* fault: a getToken that asks again when getTokenFromWeb failed
WebErrMutant(stage) ==
  /\ pc' = "getTokenFromWeb"
  /\ runErr' = runErr

\* fault: a getToken that goes on to saveToken when getTokenFromWeb failed
WebErrSaveMutant(stage) ==
  /\ pc' = "saveToken"
  /\ runErr' = runErr

\* getToken lines 36-38: what follows an error of getTokenFromWeb
WebErr(stage) ==
  ReturnErr(stage)

\* getTokenFromWeb, lines 50-68: show the URL, read one code, exchange it
getTokenFromWeb ==
  /\ pc = "getTokenFromWeb"
  /\ prompts' = prompts + 1
  /\ \E scanOk \in BOOLEAN, exchanged \in WebTokens \cup {NoToken} :
       IF ~scanOk
       THEN /\ exchanged = NoToken
            /\ WebErr("token")
            /\ UNCHANGED << codeReads, exchanges, token, tokenSource >>
       ELSE /\ codeReads' = codeReads + 1
            /\ exchanges' = exchanges + 1
            /\ IF exchanged = NoToken
               THEN /\ WebErr("token")
                    /\ UNCHANGED << token, tokenSource >>
               ELSE /\ token' = exchanged
                    /\ tokenSource' = "web"
                    /\ pc' = "saveToken"
                    /\ runErr' = runErr
  /\ UNCHANGED << variant, cacheFile, cacheReads, cacheWrites, written,
                  apiVars, dbVars, exitStatus >>

\* fault: a getToken that ignores the error of saveToken
AfterSaveMutant(err) ==
  "newService"

\* fault: a getToken that calls saveToken again when it failed
AfterSaveAgainMutant(err) ==
  IF err THEN "saveToken" ELSE "newService"

\* getToken lines 39-45: where control goes when saveToken returned err
AfterSave(err) ==
  IF err THEN "returned" ELSE "newService"

\* fault: a saveToken that never touches the file
FileAfterSaveMutant(out) ==
  cacheFile

\* saveToken, lines 113-133: the file after the call. O_TRUNC empties it
\* as soon as it is opened, so a failed Encode leaves no JSON behind
FileAfterSave(out) ==
  CASE out = "openErr"   -> cacheFile
    [] out = "encodeErr" -> FileCorrupt
    [] OTHER             -> FileOf(token)

\* saveToken, lines 111-136: open with O_CREATE|O_TRUNC, encode, close,
\* and getToken lines 39-45. The error of Close is assigned to a local in
\* the deferred function and never returned.
saveToken ==
  /\ pc = "saveToken"
  /\ cacheWrites' = cacheWrites + 1
  /\ \E out \in {"openErr", "encodeErr", "closeErr", "ok"} :
       /\ cacheFile' = FileAfterSave(out)
       /\ written' = IF out \in {"closeErr", "ok"} THEN token ELSE written
       /\ LET nxt == AfterSave(out \in {"openErr", "encodeErr"}) IN
            /\ pc' = nxt
            /\ runErr' = IF nxt = "returned" THEN "token" ELSE runErr
            /\ token' = IF nxt = "returned" THEN NoToken ELSE token
            /\ tokenSource' = IF nxt = "returned" THEN "none"
                              ELSE tokenSource
  /\ UNCHANGED << variant, cacheReads, prompts, codeReads, exchanges,
                  apiVars, dbVars, exitStatus >>

\* Run, lines 315-318: youtube.NewService
NewService ==
  /\ pc = "newService"
  /\ \E ok \in BOOLEAN :
       IF ok THEN pc' = "getChannelsLists" /\ runErr' = runErr
       ELSE ReturnErr("client")
  /\ UNCHANGED << variant, tokenVars, apiVars, dbVars, exitStatus >>

\* ------------------------------------------------------------ YouTube API
\* titles a playlist of the channel may carry: the one line 186 compares
\* with, and one that differs from it by case only
Titles ==
  {"Favorites", "favorites"}

\* the page tokens the API hands out: Cursors[p] opens page p + 1
Cursors ==
  << "A", "B", "C", "D", "E" >>

\* the page a cursor stands for
PageOf(cursor) ==
  IF cursor = "" THEN 1
  ELSE 1 + (CHOOSE p \in 1..Len(Cursors) : Cursors[p] = cursor)

\* fault: a getChannelsLists without the check of line 164
NoChannelMutant(n) ==
  FALSE

\* getChannelsLists lines 164-166: the lookup is rejected
NoChannel(n) ==
  n = 0

\* getChannelsLists, lines 156-169, and Run lines 321-324
getChannelsLists ==
  /\ pc = "getChannelsLists"
  /\ channelReqs' = channelReqs + 1
  /\ \E callOk \in BOOLEAN, n \in 0..1 :
       IF ~callOk
       THEN /\ n = 0
            /\ ReturnErr("channel: not call")
            /\ UNCHANGED channelItems
       ELSE /\ channelItems' = n
            /\ IF NoChannel(n)
               THEN ReturnErr("channel: incorrect userName")
               ELSE pc' = "getListsID" /\ runErr' = runErr
  /\ UNCHANGED << variant, tokenVars, playlistReqs, plResponse, plMore,
                  playlists, idx, nextPageToken, calls, page, itemIdx,
                  emitted, dbVars, exitStatus >>

\* fault: a getListsID that keeps every playlist
KeepMutant(title) ==
  TRUE

\* getListsID line 186: the playlist is kept
Keep(title) ==
  title # "Favorites"

\* getListsID, lines 184-193: the loop that builds []playlistMeta
RECURSIVE FilterPlaylists(_)
FilterPlaylists(items) ==
  IF items = << >> THEN << >>
  ELSE LET rest == FilterPlaylists(Tail(items))
           pl   == Head(items)
       IN IF Keep(pl.title)
          THEN << [ID |-> pl.id, Title |-> pl.title] >> \o rest
          ELSE rest

\* the Items of a PlaylistListResponse: at most maxResults playlists, the
\* i-th with id i
PlaylistResponses(maxResults) ==
  UNION { { [i \in 1..n |-> [id |-> i, title |-> t[i]]] :
              t \in [1..n -> Titles] } :
          n \in { m \in 0..MaxPlaylists : m <= maxResults } }

\* fault: a getListsID that asks for the next page of the playlist list
AfterPlaylistListMutant(more) ==
  IF more THEN "getListsID" ELSE "getListItems"

\* getListsID lines 179-195: response2.NextPageToken is never read; the one
\* response is filtered and returned
AfterPlaylistList(more) ==
  "getListItems"

\* getListsID, lines 177-196 (with getPlaylistsInfo, lines 140-154), and
\* Run lines 326-329. The API sets NextPageToken only on a response that
\* is full (MaxPlaylists stands for maxResults there).
getListsID ==
  /\ pc = "getListsID"
  /\ playlistReqs' = playlistReqs + 1
  /\ \/ /\ ReturnErr("playlists")
        /\ UNCHANGED << plResponse, plMore, playlists >>
     \/ \E items \in PlaylistResponses(PlaylistsMaxResults),
           more \in BOOLEAN :
          /\ more => Len(items) = MaxPlaylists
          /\ plResponse' = items
          /\ plMore' = more
          /\ playlists' = FilterPlaylists(items)
          /\ pc' = AfterPlaylistList(more)
          /\ runErr' = runErr
  /\ UNCHANGED << variant, tokenVars, channelReqs, channelItems, idx,
                  nextPageToken, calls, page, itemIdx, emitted, dbVars,
                  exitStatus >>

\* getListItems, lines 234-237: the cursor is declared empty, the sink is
\* connected (Connect ends the process through logrus.Fatal on an error),
\* and the range loop is entered
getListItems ==
  /\ pc = "getListItems"
  /\ \E connected \in BOOLEAN :
       IF variant = "sql" /\ ~connected
       THEN /\ pc' = "exited"
            /\ exitStatus' = 1
            /\ UNCHANGED << runErr, idx, nextPageToken >>
       ELSE /\ connected
            /\ nextPageToken' = ""
            /\ exitStatus' = exitStatus
            /\ IF playlists = << >>
               THEN pc' = "returned" /\ runErr' = "nil" /\ idx' = idx
               ELSE pc' = "fetch" /\ runErr' = runErr /\ idx' = 1
  /\ UNCHANGED << variant, tokenVars, channelReqs, channelItems,
                  playlistReqs, plResponse, plMore, playlists, calls, page,
                  itemIdx, emitted, dbVars >>

\* fault: a getListItems that never sends the cursor it was given
PageTokenMutant ==
  ""

\* getListItems line 243: the cursor a page request carries
PageToken ==
  nextPageToken

\* fault: a getListItems that leaves the page loop after the first page
LastPageMutant(next) ==
  TRUE

\* getListItems lines 253-255: the break of the page loop
LastPage(next) ==
  next = ""

\* fault: a getListItems that never moves on to the next playlist
NextPlaylistMutant(i) ==
  i

\* getListItems line 237: the range loop takes the next element
NextPlaylist(i) ==
  i + 1

\* getListItems, lines 252-260: take the cursor of the response, then the
\* next page, the next playlist, or return nil
AdvanceCursor(next) ==
  /\ nextPageToken' = next
  /\ IF ~LastPage(next)
     THEN pc' = "fetch" /\ idx' = idx /\ runErr' = runErr
     ELSE IF idx < Len(playlists)
          THEN pc' = "fetch" /\ idx' = NextPlaylist(idx) /\ runErr' = runErr
          ELSE pc' = "returned" /\ idx' = idx /\ runErr' = "nil"

\* items the API has returned so far for playlist id
RECURSIVE Returned(_, _)
Returned(log, id) ==
  IF log = << >> THEN 0
  ELSE Returned(Tail(log), id)
       + (IF Head(log).id = id /\ Head(log).ok THEN Len(Head(log).items) ELSE 0)

\* the Items of a PlaylistItemListResponse: n items of playlist id whose
\* snippet.position continues the listing of that playlist. The API fills
\* every page that has a successor (MaxItems stands for maxResults there);
\* the last page of a listing holds what is left, possibly nothing.
ItemsOf(id, n) ==
  [i \in 1..n |-> [videoId  |-> << id, Returned(calls, id) + i - 1 >>,
                   position |-> Returned(calls, id) + i - 1]]

\* fault: a getListItems that undoes the latest row when a page fails
RowsAfterFetchErrMutant ==
  IF committed > 0 THEN committed - 1 ELSE committed

\* getListItems lines 246-248: the return touches no transaction; every row
\* was committed by its own InsertProductDB call
RowsAfterFetchErr ==
  committed

\* fault: a getListItems that repeats a failed page request
FetchErrMutant ==
  /\ pc' = "fetch"
  /\ runErr' = runErr

\* getListItems lines 246-248: playlistCall.Do returned an error
FetchErr ==
  ReturnErr("items")

\* getListItems, lines 240-260 for a response without items, lines 240-250
\* otherwise: one PlaylistItems.List call and what the loop does with it
PlaylistItemsList ==
  /\ pc = "fetch"
  /\ LET meta == playlists[idx]
         req  == [pl |-> idx, id |-> meta.ID, cursor |-> PageToken,
                  max |-> ItemsMaxResults]
     IN \/ /\ calls' = Append(calls, req @@ [ok |-> FALSE, items |-> << >>,
                                             next |-> ""])
           /\ FetchErr
           /\ committed' = RowsAfterFetchErr
           /\ UNCHANGED << idx, nextPageToken, page, itemIdx >>
        \/ \E n \in 0..MaxItems, more \in BOOLEAN :
             /\ n <= req.max
             /\ more => (PageOf(req.cursor) < MaxPages /\ n = MaxItems)
             /\ LET next == IF more THEN Cursors[PageOf(req.cursor)] ELSE ""
                    items == ItemsOf(req.id, n)
                IN /\ calls' = Append(calls, req @@ [ok |-> TRUE,
                                        items |-> items, next |-> next])
                   /\ committed' = committed
                   /\ IF n = 0
                      THEN /\ AdvanceCursor(next)
                           /\ UNCHANGED << page, itemIdx >>
                      ELSE /\ page' = items
                           /\ itemIdx' = 1
                           /\ pc' = "emit"
                           /\ UNCHANGED << idx, nextPageToken, runErr >>
  /\ UNCHANGED << variant, tokenVars, channelReqs, channelItems,
                  playlistReqs, plResponse, plMore, playlists, emitted,
                  txCalls, lastTx, openTx, sinkErrs, printedErrs,
                  exitStatus >>

\* --------------------------------------------------------------- the sink
\* the zero TrackInfo, and lastTx before the first call
NoRecord ==
  [PlaylistTitle |-> "", PlaylistID |-> 0, VideoID |-> << 0, 0 >>,
   Position |-> 0]

NoTx ==
  [oi |-> NoRecord, began |-> FALSE, execOk |-> FALSE, final |-> "none",
   err |-> FALSE]

\* outcomes of the three database calls of InsertProductDB
SinkOutcomes ==
  {"beginErr", "execErr", "commitErr", "ok"}

\* fault: a deferred rollback that undoes an ended transaction too
DeferredRollbackMutant(st) ==
  IF st = "none" THEN st ELSE "rolledback"

\* InsertProductDB line 391: the deferred tx.Rollback; on a transaction that
\* Commit has ended it returns sql.ErrTxDone and changes nothing
DeferredRollback(st) ==
  IF st = "open" THEN "rolledback" ELSE st

\* InsertProductDB line 399: tx.Commit ends the transaction
Commit(out) ==
  IF out = "ok" THEN "committed" ELSE "failed"

\* fault: an InsertProductDB that commits after a failed statement
ExecThenCommitMutant(out) ==
  Commit(out)

\* InsertProductDB lines 394-399: the statement, then the commit
ExecThenCommit(out) ==
  IF out = "execErr" THEN "open" ELSE Commit(out)

\* InsertProductDB, lines 386-400: the state in which the call leaves the
\* transaction it began ("none" when Begin failed)
InsertProductDB(out) ==
  IF out = "beginErr" THEN "none"
  ELSE DeferredRollback(ExecThenCommit(out))

\* getItemInfo lines 226-229: PostProduct returned err; it is printed and
\* the range loop goes on
SinkErr ==
  printedErrs' = printedErrs + 1

\* fault: a getItemInfo that numbers the records itself, across the run
PositionOfMutant(item) ==
  Len(emitted)

\* getItemInfo line 220: the position is the one of the response
PositionOf(item) ==
  item.position

\* getItemInfo, lines 211-230 for one playlistItem (PostProduct, lines
\* 402-408, and InsertProductDB), and lines 594-608 in the print revision;
\* after the last item of the page, getListItems lines 252-260
PostProduct ==
  /\ pc = "emit"
  /\ LET meta == playlists[idx]
         item == page[itemIdx]
         oi   == [PlaylistTitle |-> IF variant = "sql" THEN meta.Title ELSE "",
                  PlaylistID    |-> IF variant = "sql" THEN meta.ID ELSE 0,
                  VideoID       |-> item.videoId,
                  Position      |-> PositionOf(item)]
     IN /\ emitted' = Append(emitted, [pl |-> idx, oi |-> oi])
        /\ IF variant = "sql"
           THEN \E out \in SinkOutcomes :
                  /\ out # "ok" => sinkErrs < MaxSinkErrors
                  /\ LET final == InsertProductDB(out) IN
                       /\ txCalls' = txCalls + 1
                       /\ lastTx' = [oi |-> oi,
                                     began |-> out # "beginErr",
                                     execOk |-> out \in {"commitErr", "ok"},
                                     final |-> final, err |-> out # "ok"]
                       /\ openTx' = openTx + IF final = "open" THEN 1 ELSE 0
                       /\ committed' = committed
                                       + IF final = "committed" THEN 1 ELSE 0
                  /\ IF out # "ok"
                     THEN sinkErrs' = sinkErrs + 1 /\ SinkErr
                     ELSE UNCHANGED << sinkErrs, printedErrs >>
           ELSE UNCHANGED dbVars
  /\ IF itemIdx < Len(page)
     THEN /\ itemIdx' = itemIdx + 1
          /\ UNCHANGED << pc, idx, nextPageToken, runErr >>
     ELSE /\ itemIdx' = itemIdx
          /\ AdvanceCursor(calls[Len(calls)].next)
  /\ UNCHANGED << variant, tokenVars, channelReqs, channelItems,
                  playlistReqs, plResponse, plMore, playlists, calls, page,
                  exitStatus >>

\* fault: a main that drops the error of Run
ExitStatusOfMutant(err) ==
  0

\* main lines 342-345: log.Fatal exits with status 1, a nil error lets
\* main return
ExitStatusOf(err) ==
  IF err = "nil" THEN 0 ELSE 1

\* main, lines 339-346: log.Fatal on an error of Run
main ==
  /\ pc = "returned"
  /\ pc' = "exited"
  /\ exitStatus' = ExitStatusOf(runErr)
  /\ UNCHANGED << variant, tokenVars, apiVars, dbVars, runErr >>

\* ---------------------------------------------------------- specification
Init ==
  /\ variant \in {"sql", "print"}
  /\ pc = "readConfig"
  /\ cacheFile \in {FileAbsent, FileUnreadable, FileCorrupt}
                   \cup { FileOf(t) : t \in CachedTokens }
  /\ token = NoToken
  /\ tokenSource = "none"
  /\ cacheReads = 0
  /\ prompts = 0
  /\ codeReads = 0
  /\ exchanges = 0
  /\ cacheWrites = 0
  /\ written = NoToken
  /\ channelReqs = 0
  /\ channelItems = -1
  /\ playlistReqs = 0
  /\ plResponse = << >>
  /\ plMore = FALSE
  /\ playlists = << >>
  /\ idx = 0
  /\ nextPageToken = ""
  /\ calls = << >>
  /\ page = << >>
  /\ itemIdx = 0
  /\ emitted = << >>
  /\ txCalls = 0
  /\ lastTx = NoTx
  /\ openTx = 0
  /\ committed = 0
  /\ sinkErrs = 0
  /\ printedErrs = 0
  /\ runErr = "running"
  /\ exitStatus = -1

Next ==
  \/ ReadInConfig
  \/ initCredential
  \/ getToken
  \/ getTokenFromWeb
  \/ saveToken
  \/ NewService
  \/ getChannelsLists
  \/ getListsID
  \/ getListItems
  \/ PlaylistItemsList
  \/ PostProduct
  \/ main

Spec ==
  Init /\ [][Next]_vars

\* ------------------------------------------------------------- properties
Stopped ==
  pc \in {"returned", "exited"}

\* the items of the successful page responses, in fetch order
RECURSIVE FlatItems(_)
FlatItems(log) ==
  IF log = << >> THEN << >>
  ELSE LET c == Head(log)
       IN [i \in 1..Len(c.items) |->
             [pl |-> c.pl, VideoID |-> c.items[i].videoId,
              Position |-> c.items[i].position]]
          \o FlatItems(Tail(log))

EmittedItems ==
  [i \in 1..Len(emitted) |->
     [pl |-> emitted[i].pl, VideoID |-> emitted[i].oi.VideoID,
      Position |-> emitted[i].oi.Position]]

\* items of the page in hand that getItemInfo has not reached yet
Pending ==
  IF pc = "emit" THEN Len(page) - itemIdx + 1 ELSE 0

\* number of the request calls[i] among the requests of its playlist
RequestNo(i) ==
  Cardinality({ j \in 1..i : calls[j].pl = calls[i].pl })

\* C1: the page requests of a playlist form one cursor chain: the first
\* carries the empty cursor, each later one the cursor of the response
\* before it, the j-th asks for page j, none follows a response with an
\* empty cursor; and the records emitted are the items returned, one record
\* per item, in fetch order.
C1_PageChain ==
  /\ \A i \in 1..Len(calls) :
       /\ calls[i].cursor = IF i = 1 \/ calls[i - 1].pl # calls[i].pl
                            THEN "" ELSE calls[i - 1].next
       /\ PageOf(calls[i].cursor) = RequestNo(i)
       /\ i > 1 => /\ calls[i - 1].pl <= calls[i].pl
                   /\ calls[i - 1].pl = calls[i].pl
                        <=> (calls[i - 1].ok /\ calls[i - 1].next # "")
  /\ LET flat == FlatItems(calls)
     IN EmittedItems = SubSeq(flat, 1, Len(flat) - Pending)
  /\ (runErr = "nil" /\ playlists # << >>) =>
       /\ calls[Len(calls)].next = ""
       /\ \A p \in 1..Len(playlists) : \E i \in 1..Len(calls) : calls[i].pl = p

\* a playlist of two pages (2 items, then 1) was listed to its end
C1_Witness ==
  /\ runErr = "nil"
  /\ Len(calls) >= 2
  /\ calls[1].pl = calls[2].pl
  /\ Len(calls[1].items) = MaxItems
  /\ Len(calls[2].items) = 1
  /\ calls[2].next = ""
  /\ Len(emitted) >= 3

\* C2: a failed page request is the last request of the run; once it has
\* failed the enumeration has returned the fetch error, every item of the
\* pages fetched before it has been handed to the sink, and nothing is
\* emitted or requested afterwards.
C2_FetchErrorAborts ==
  \A i \in 1..Len(calls) :
    ~calls[i].ok =>
      /\ i = Len(calls)
      /\ Stopped
      /\ runErr = "items"
      /\ EmittedItems = FlatItems(SubSeq(calls, 1, i - 1))

\* the second page of the first of two playlists failed after a first page
\* with items
C2_Witness ==
  /\ Len(playlists) = 2
  /\ Len(calls) = 2
  /\ calls[1].ok
  /\ calls[1].items # << >>
  /\ ~calls[2].ok
  /\ calls[2].pl = 1
  /\ pc = "exited"

\* C3: a run in which the insert of some record failed ends with an error
\* returned by the enumeration and by Run.
C3_SinkErrorPropagated ==
  (Stopped /\ sinkErrs > 0) => runErr # "nil"

CacheMissed ==
  cacheReads >= 1 /\ tokenSource # "cache"

\* C4: after a failed cache read the authorization URL is shown once, at
\* most one code is read and at most one exchange is made, and the cache
\* file is read only that one time.
C4_WebPathOnce ==
  /\ cacheReads <= 1
  /\ CacheMissed =>
       /\ prompts <= 1
       /\ codeReads <= 1
       /\ exchanges <= 1
       /\ pc # "getTokenFromWeb" => prompts = 1

\* the cache read failed, one code was exchanged, the save failed
C4_Witness ==
  /\ CacheMissed
  /\ prompts = 1
  /\ exchanges = 1
  /\ cacheWrites = 1
  /\ runErr = "token"

\* C5: when the cache file decodes, getToken returns the decoded token
\* without showing the URL, reading a code, exchanging or writing the file,
\* whatever the expiry of the token.
C5_CacheHitReturns ==
  /\ (cacheReads >= 1 /\ cacheWrites = 0 /\ cacheFile.state = "json") =>
       /\ tokenSource = "cache"
       /\ token = Decode(cacheFile.body)
       /\ pc \notin {"getToken", "getTokenFromWeb", "saveToken"}
       /\ runErr # "token"
  /\ tokenSource = "cache" =>
       /\ prompts = 0
       /\ codeReads = 0
       /\ exchanges = 0
       /\ cacheWrites = 0
       /\ cacheReads = 1

\* an expired token was taken from the cache and handed to Run
C5_Witness ==
  /\ tokenSource = "cache"
  /\ Expired(token)
  /\ token \in CachedTokens
  /\ pc = "getChannelsLists"

ScanFailed ==
  prompts > codeReads

ExchangeFailed ==
  exchanges >= 1 /\ cacheWrites = 0 /\ tokenSource = "none"

SaveFailed ==
  cacheWrites >= 1 /\ cacheFile.state # "json"

C8_NoChannel ==
  channelItems = 0 =>
    /\ Stopped
    /\ runErr = "channel: incorrect userName"
    /\ channelReqs = 1
    /\ playlistReqs = 0
    /\ calls = << >>
    /\ emitted = << >>

\* the lookup returned zero channels and the process has ended
C8_Witness ==
  /\ channelItems = 0
  /\ pc = "exited"
  /\ exitStatus = 1

\* C9: the playlists enumerated are the returned playlists not titled
\* "Favorites", in the order of the response (response ids ascend); no item
\* request and no record belongs to a playlist titled "Favorites".
C9_FavoritesSkipped ==
  /\ { playlists[k].ID : k \in 1..Len(playlists) }
       = { i \in 1..Len(plResponse) : plResponse[i].title # "Favorites" }
  /\ \A k \in 1..Len(playlists) :
       /\ playlists[k].Title = plResponse[playlists[k].ID].title
       /\ k > 1 => playlists[k - 1].ID < playlists[k].ID
  /\ \A i \in 1..Len(calls) :
       /\ calls[i].id = playlists[calls[i].pl].ID
       /\ plResponse[calls[i].id].title # "Favorites"
  /\ \A i \in 1..Len(emitted) :
       plResponse[playlists[emitted[i].pl].ID].title # "Favorites"

\* "Favorites" came first in the response, a playlist titled "favorites"
\* after it was enumerated to its end
C9_Witness ==
  /\ Len(plResponse) = 2
  /\ plResponse[1].title = "Favorites"
  /\ plResponse[2].title = "favorites"
  /\ runErr = "nil"
  /\ Len(calls) = MaxPages
  /\ emitted # << >>

\* C10 as stated: every call begins one transaction, which is committed
\* when the statement succeeded and rolled back when it failed; none stays
\* open.
C10_Original ==
  txCalls > 0 =>
    /\ lastTx.began
    /\ lastTx.execOk => lastTx.final = "committed"
    /\ ~lastTx.execOk => lastTx.final = "rolledback"
    /\ openTx = 0

\* C10 amended: one InsertProductDB call per record; when Begin fails no
\* transaction exists; otherwise the transaction is ended before the call
\* returns: rolled back when the statement failed, committed when the
\* statement and Commit succeeded, ended without a commit when Commit
\* failed; the call returns nil exactly when it committed (the deferred
\* rollback undoes no commit), and the table gets one row per commit.
C10_PerRecordTransaction ==
  /\ txCalls = IF variant = "sql" THEN Len(emitted) ELSE 0
  /\ openTx = 0
  /\ committed + sinkErrs = txCalls
  /\ txCalls > 0 =>
       /\ lastTx.oi = emitted[Len(emitted)].oi
       /\ lastTx.final # "open"
       /\ ~lastTx.began => (lastTx.final = "none" /\ lastTx.err)
       /\ (lastTx.began /\ ~lastTx.execOk) =>
            (lastTx.final = "rolledback" /\ lastTx.err)
       /\ (lastTx.began /\ lastTx.execOk) =>
            lastTx.final \in {"committed", "failed"}
       /\ lastTx.final = "committed" <=> ~lastTx.err

\* one record was committed, the statement of the next one failed
C10_Witness ==
  /\ txCalls = 2
  /\ lastTx.began
  /\ lastTx.final = "rolledback"
  /\ committed = 1

\* C11: the committed rows only grow. A step adds at most one row, and only
\* through an InsertProductDB call that committed; a page request that
\* fails leaves every row in place, so a run aborted by a fetch error ends
\* with one row for every insert that succeeded before it.
C11_CommittedOnlyGrow ==
  /\ [](variant = "sql" /\ Stopped /\ runErr = "items"
          => committed = txCalls - sinkErrs)
  /\ [][ /\ committed' \in {committed, committed + 1}
         /\ committed' = committed + 1
              => txCalls' = txCalls + 1 /\ lastTx'.final = "committed"
         /\ (Len(calls') > Len(calls) /\ ~calls'[Len(calls')].ok)
              => committed' = committed ]_vars

\* rows were committed for the first playlist, then a page request of the
\* second playlist failed and the run stopped
C11_Witness ==
  /\ pc = "exited"
  /\ runErr = "items"
  /\ committed >= 1
  /\ calls[Len(calls)].pl = 2
  /\ ~calls[Len(calls)].ok

\* The state in which Run calls getListItems (line 331): the token came from
\* the cache, the channel was found, the one playlist list was fetched and
\* filtered; the list is any list of at most MaxPlaylists playlists.
EnumInit ==
  /\ variant \in {"sql", "print"}
  /\ pc = "getListItems"
  /\ token \in { t \in CachedTokens : ~Expired(t) }
  /\ cacheFile = FileOf(token)
  /\ tokenSource = "cache"
  /\ cacheReads = 1
  /\ prompts = 0
  /\ codeReads = 0
  /\ exchanges = 0
  /\ cacheWrites = 0
  /\ written = NoToken
  /\ channelReqs = 1
  /\ channelItems = 1
  /\ playlistReqs = 1
  /\ plResponse \in { r \in PlaylistResponses(PlaylistsMaxResults) :
                        \A i \in 1..Len(r) : Keep(r[i].title) }
  /\ plMore = FALSE
  /\ playlists = FilterPlaylists(plResponse)
  /\ idx = 0
  /\ nextPageToken = ""
  /\ calls = << >>
  /\ page = << >>
  /\ itemIdx = 0
  /\ emitted = << >>
  /\ txCalls = 0
  /\ lastTx = NoTx
  /\ openTx = 0
  /\ committed = 0
  /\ sinkErrs = 0
  /\ printedErrs = 0
  /\ runErr = "running"
  /\ exitStatus = -1

\* getListItems, lines 233-261, with the calls of its loop
EnumNext ==
  \/ getListItems
  \/ PlaylistItemsList
  \/ PostProduct

\* The program is one goroutine and every call of the loop of getListItems
\* (lines 237-259) is synchronous: a page request that was issued comes
\* back with a response or an error, and a record handed to the sink comes
\* back.
EnumSpec ==
  /\ EnumInit
  /\ [][EnumNext]_vars
  /\ WF_vars(PlaylistItemsList)
  /\ WF_vars(PostProduct)

\* EnumInit describes states of Run: each of them is met by this predicate,
\* which a run of Spec reaches
EnumInitReached ==
  /\ pc = "getListItems"
  /\ tokenSource = "cache"
  /\ ~Expired(token)
  /\ plMore = FALSE
  /\ Len(playlists) = MaxPlaylists
  /\ playlists = [i \in 1..Len(plResponse) |->
                    [ID |-> plResponse[i].id, Title |-> plResponse[i].title]]

\* the loop of getListItems is running
Enumerating ==
  pc \in {"fetch", "emit"}

\* DONE: nil was returned and the last response of every playlist carried
\* the empty cursor
Done ==
  /\ pc = "returned"
  /\ runErr = "nil"
  /\ \A p \in 1..Len(playlists) :
       \E i \in 1..Len(calls) :
         /\ calls[i].pl = p
         /\ calls[i].ok
         /\ calls[i].next = ""
         /\ \A j \in (i + 1)..Len(calls) : calls[j].pl # p

\* ABORTED: the error of the last page request was returned
Aborted ==
  /\ pc = "returned"
  /\ runErr = "items"
  /\ calls # << >>
  /\ ~calls[Len(calls)].ok

RoundTripTokens ==
  [access_token : {"", "at1", "at3"}, refresh_token : {"", "rt1", "rt3"},
   expiry : 0..Len(TimeText)]

\* The state in which getToken calls saveToken (line 39): the cache did not
\* decode, the code was read and exchanged for the token.
RoundTripInit ==
  /\ variant \in {"sql", "print"}
  /\ pc = "saveToken"
  /\ cacheFile \in {FileAbsent, FileUnreadable, FileCorrupt}
  /\ token \in RoundTripTokens
  /\ tokenSource = "web"
  /\ cacheReads = 1
  /\ prompts = 1
  /\ codeReads = 1
  /\ exchanges = 1
  /\ cacheWrites = 0
  /\ written = NoToken
  /\ channelReqs = 0
  /\ channelItems = -1
  /\ playlistReqs = 0
  /\ plResponse = << >>
  /\ plMore = FALSE
  /\ playlists = << >>
  /\ idx = 0
  /\ nextPageToken = ""
  /\ calls = << >>
  /\ page = << >>
  /\ itemIdx = 0
  /\ emitted = << >>
  /\ txCalls = 0
  /\ lastTx = NoTx
  /\ openTx = 0
  /\ committed = 0
  /\ sinkErrs = 0
  /\ printedErrs = 0
  /\ runErr = "running"
  /\ exitStatus = -1

\* main, line 339, of a later process: the program is started again once
\* getToken of the run before has returned. Only the cache file lives on.
NextRun ==
  /\ pc \in {"newService", "returned"}
  /\ pc' = "readConfig"
  /\ token' = NoToken
  /\ tokenSource' = "none"
  /\ cacheReads' = 0
  /\ prompts' = 0
  /\ codeReads' = 0
  /\ exchanges' = 0
  /\ cacheWrites' = 0
  /\ runErr' = "running"
  /\ UNCHANGED << variant, cacheFile, written, apiVars, dbVars, exitStatus >>

\* saveToken, then a later run up to the return of its getToken
RoundTripNext ==
  \/ saveToken
  \/ NextRun
  \/ ReadInConfig
  \/ initCredential
  \/ getToken

RoundTripSpec ==
  RoundTripInit /\ [][RoundTripNext]_vars

\* C13: the file saveToken wrote decodes: getTokenFromFile on it succeeds
\* and yields the token that was written (access token, refresh token,
\* expiry), and the getToken of a later run returns that token.
C13_TokenRoundTrip ==
  /\ cacheFile.state = "json" =>
       /\ CacheHit(cacheFile)
       /\ Decode(cacheFile.body) = written
  /\ tokenSource = "cache" =>
       /\ token = written
       /\ pc = "newService"

\* a later run got from the cache the token without refresh token and with
\* the zero expiry that the run before had saved
C13_Witness ==
  /\ tokenSource = "cache"
  /\ token = written
  /\ token.access_token = "at3"
  /\ token.refresh_token = ""
  /\ token.expiry = 0
  /\ cacheWrites = 0

\* ------------------------------------------------------ order and content
\* C14: playlists are taken in the order of the filtered list, one after
\* another. A page request is issued only when every item of the pages
\* before it has been handed to the sink; it is for the playlist of the
\* request before it, or for the next playlist of the list when that one
\* ended with an empty cursor, so no request or record of an earlier
\* playlist follows it; a record is handed over for the playlist of the
\* latest request, and no step both requests a page and emits a record.
C14_StrictOrder ==
  [][ /\ calls' # calls =>
           LET c == calls'[Len(calls')]
               n == Len(calls)
           IN /\ calls' = Append(calls, c)
              /\ emitted' = emitted
              /\ Len(emitted) = Len(FlatItems(calls))
              /\ c.pl = IF n = 0 THEN 1
                        ELSE IF calls[n].next = "" THEN calls[n].pl + 1
                        ELSE calls[n].pl
              /\ c.id = playlists[c.pl].ID
              /\ \A i \in 1..n : calls[i].ok /\ calls[i].pl <= c.pl
              /\ \A i \in 1..Len(emitted) : emitted[i].pl <= c.pl
      /\ emitted' # emitted =>
           LET e == emitted'[Len(emitted')]
           IN /\ emitted' = Append(emitted, e)
              /\ calls' = calls
              /\ e.pl = calls[Len(calls)].pl
              /\ \A i \in 1..Len(emitted) : emitted[i].pl <= e.pl ]_vars

\* records of the first playlist, from two pages, were followed by a
\* request and a record of the second
C14_Witness ==
  /\ Len(calls) >= 3
  /\ calls[1].pl = 1
  /\ calls[2].pl = 1
  /\ calls[3].pl = 2
  /\ Len(emitted) > MaxItems
  /\ emitted[1].pl = 1
  /\ emitted[Len(emitted)].pl = 2

\* C15: the cache file is written at most once in a run, and only before
\* API traffic: the file changes only in the one saveToken call, and when
\* that call is over no channel, playlist or playlist-item request has been
\* issued yet.
C15_CacheWrittenOnce ==
  /\ [](cacheWrites <= 1)
  /\ [][ (cacheFile' # cacheFile \/ cacheWrites' # cacheWrites) =>
           /\ pc = "saveToken"
           /\ cacheWrites = 0
           /\ cacheWrites' = 1
           /\ channelReqs' = 0
           /\ playlistReqs' = 0
           /\ calls' = << >> ]_vars

\* the file was written, then all three kinds of request were issued
C15_Witness ==
  /\ cacheWrites = 1
  /\ cacheFile = FileOf(token)
  /\ tokenSource = "web"
  /\ channelReqs = 1
  /\ playlistReqs = 1
  /\ Len(calls) >= 2

\* the title the playlist list response gave for the playlist id
TitleOf(id) ==
  plResponse[CHOOSE k \in 1..Len(plResponse) : plResponse[k].id = id].title

\* C16: every record is emitted for the next item of the latest page
\* response and is never changed afterwards: it has the video id and the
\* position of that item as the response reported it, and (database
\* revision, whose record has the two fields) the id of the playlist the
\* page was requested for and the title the playlist list gave for that id.
C16_RecordContent ==
  [][ emitted' # emitted =>
        LET e == emitted'[Len(emitted')]
            c == calls[Len(calls)]
            k == Len(emitted')
                 - Len(FlatItems(SubSeq(calls, 1, Len(calls) - 1)))
        IN /\ emitted' = Append(emitted, e)
           /\ c.ok
           /\ k \in 1..Len(c.items)
           /\ e.oi.VideoID = c.items[k].videoId
           /\ e.oi.Position = c.items[k].position
           /\ variant = "sql" =>
                /\ e.oi.PlaylistID = c.id
                /\ e.oi.PlaylistTitle = TitleOf(c.id) ]_vars

\* the second page of the first playlist and the first page of the second
\* were emitted: the record after a full page has the position the API gave
\* it, the first record of the second playlist has position 0 again
C16_Witness ==
  /\ variant = "sql"
  /\ Len(emitted) >= 2 * MaxItems + 1
  /\ emitted[MaxItems + 1].oi.Position = MaxItems
  /\ emitted[MaxItems + 1].oi.PlaylistID = playlists[1].ID
  /\ \E i \in 1..Len(emitted) :
       /\ i > MaxItems + 1
       /\ emitted[i].oi.Position = 0
       /\ emitted[i].oi.PlaylistID = playlists[2].ID
       /\ emitted[i].oi.PlaylistTitle = "favorites"

\* C17: the playlist list is requested once per run, also when the response
\* says that more playlists exist; the response holds at most
\* PlaylistsMaxResults playlists and only playlists of that response are
\* enumerated.
C17_OnePlaylistRequest ==
  /\ playlistReqs <= 1
  /\ (pc \in {"getListItems", "fetch", "emit"} \/ calls # << >>) =>
       playlistReqs = 1
  /\ Len(plResponse) <= PlaylistsMaxResults
  /\ Len(playlists) <= Len(plResponse)
  /\ Cardinality({ calls[i].id : i \in 1..Len(calls) })
       <= PlaylistsMaxResults
  /\ \A i \in 1..Len(calls) :
       \E k \in 1..Len(plResponse) : plResponse[k].id = calls[i].id

\* the response announced more playlists; the run enumerated the playlists
\* of the response and ended without a second request
C17_Witness ==
  /\ plMore
  /\ pc = "exited"
  /\ runErr = "nil"
  /\ playlistReqs = 1
  /\ Len(playlists) = MaxPlaylists
  /\ calls[Len(calls)].pl = MaxPlaylists

\* ------------------------------------------------------ stages and exit
\* the stage of Run that a program position belongs to
StageOf(p) ==
  CASE p = "readConfig"       -> 1
    [] p = "initCredential"   -> 2
    [] p \in {"getToken", "getTokenFromWeb", "saveToken"} -> 3
    [] p = "newService"       -> 4
    [] p = "getChannelsLists" -> 5
    [] p = "getListsID"       -> 6
    [] p \in {"getListItems", "fetch", "emit"} -> 7
    [] p = "returned"         -> 8
    [] p = "exited"           -> 9

\* the stage whose error Run returned
StageOfErr(e) ==
  CASE e = "env"                    -> 1
    [] e \in {"secret", "config"}   -> 2
    [] e = "token"                  -> 3
    [] e = "client"                 -> 4
    [] e \in {"channel: not call", "channel: incorrect userName"} -> 5
    [] e = "playlists"              -> 6
    [] e = "items"                  -> 7

\* the latest stage that has left a trace in the state
StageReached ==
  IF calls # << >> \/ pc \in {"fetch", "emit"} THEN 7
  ELSE IF playlistReqs > 0 THEN 6
  ELSE IF channelReqs > 0 THEN 5
  ELSE IF cacheReads + prompts + cacheWrites > 0 THEN 3
  ELSE 1

\* C18: Run goes through its stages in the fixed order and the first error
\* ends it: a stage starts only from the stage before it, an error returned
\* by a stage is the error of Run and no later stage has acted; a returned
\* error makes the process exit with status 1, and the process exits with
\* status 0 only when Run returned nil.
C18_StagesInOrder ==
  /\ [](/\ runErr \notin {"running", "nil"} =>
             /\ Stopped
             /\ StageReached <= StageOfErr(runErr)
        /\ pc = "exited" =>
             /\ exitStatus \in {0, 1}
             /\ exitStatus = 0 <=> runErr = "nil"
        /\ pc # "exited" => exitStatus = -1
        /\ runErr = "nil" => Stopped /\ playlistReqs = 1)
  /\ [][ /\ StageOf(pc') \in {StageOf(pc), StageOf(pc) + 1, 8, 9}
         /\ (StageOf(pc') = 8 /\ StageOf(pc) < 8) =>
              /\ runErr = "running"
              /\ runErr' # "running"
              /\ runErr' = "nil" => StageOf(pc) = 7
              /\ runErr' # "nil" => StageOfErr(runErr') = StageOf(pc)
         /\ StageOf(pc') = 9 =>
              \/ pc = "returned" /\ runErr' = runErr
              \/ pc = "getListItems" /\ variant = "sql" /\ exitStatus' = 1
         /\ StageOf(pc') \in 1..7 => runErr' = "running" ]_vars

\* the playlist list request failed after the stages before it had
\* succeeded; the process ended with status 1 before any page request
C18_Witness ==
  /\ pc = "exited"
  /\ runErr = "playlists"
  /\ exitStatus = 1
  /\ tokenSource = "web"
  /\ channelReqs = 1
  /\ playlistReqs = 1
  /\ calls = << >>

\* ------------------------------------------------ the shared page cursor
\* C19: in both revisions the first request of every playlist carries the
\* empty cursor, and a cursor that is sent was returned by the request
\* just before it, for the same playlist: when the loop turns to another
\* playlist the shared variable nextPageToken is empty.
C19_FirstCursorEmpty ==
  /\ \A i \in 1..Len(calls) :
       /\ (i = 1 \/ calls[i - 1].pl # calls[i].pl) => calls[i].cursor = ""
       /\ calls[i].cursor # "" =>
            /\ i > 1
            /\ calls[i - 1].pl = calls[i].pl
            /\ calls[i - 1].ok
            /\ calls[i - 1].next = calls[i].cursor
  /\ (pc = "fetch" /\ (calls = << >> \/ calls[Len(calls)].pl # idx)) =>
       nextPageToken = ""

\* printing revision: the first playlist was read over two pages, its
\* cursor was sent for its second page, and the first request of the
\* second playlist carried the empty cursor
C19_Witness ==
  /\ variant = "print"
  /\ Len(calls) >= 3
  /\ calls[1].next # ""
  /\ calls[2].cursor = calls[1].next
  /\ calls[2].pl = 1
  /\ calls[3].pl = 2
  /\ calls[3].cursor = ""

\* -------------------------------------------- the cache file as a frame
\* C20: a failed web authorization leaves the cache file as it was. The
\* step of getTokenFromWeb that fails (no code read, or no token from the
\* exchange) returns the error with the file untouched and unwritten, the
\* file changes in no step other than saveToken, and so after such a
\* failure the file is still the one the cache read found.
C20_AuthFailureKeepsFile ==
  /\ []((ScanFailed \/ ExchangeFailed) =>
          /\ Stopped
          /\ runErr = "token"
          /\ cacheWrites = 0
          /\ written = NoToken
          /\ cacheFile \in {FileAbsent, FileUnreadable, FileCorrupt})
  /\ [][ /\ (pc = "getTokenFromWeb" /\ tokenSource' # "web") =>
              /\ pc' = "returned"
              /\ cacheFile' = cacheFile
              /\ cacheWrites' = 0
         /\ pc # "saveToken" =>
              /\ cacheFile' = cacheFile
              /\ cacheWrites' = cacheWrites ]_vars

\* the exchange failed over a cache file that exists but does not decode:
\* the process ended and the file is not truncated or rewritten
C20_Witness ==
  /\ pc = "exited"
  /\ exitStatus = 1
  /\ exchanges = 1
  /\ tokenSource = "none"
  /\ cacheWrites = 0
  /\ cacheFile = FileCorrupt

====
